---- MODULE Spec2Model ----
(***************************************************************************)
(* State-machine model of the HoverVideoPlayer component                   *)
(* (react-hover-video-player): the hover player's state, the loading ref,  *)
(* the pause timeout, the isFocused override prop and the <video>          *)
(* element's paused flag, driven by the container's event handlers, the    *)
(* timeout callback and the video element's playing/error events.          *)
(***************************************************************************)
EXTENDS Integers, Sequences, FiniteSets, TLC

\* ---------------------------------------------------------------- bounds
\* Longest recorded sequence of handler invocations.
MaxHist == 5

\* ------------------------------------------------------ program constants
\* HOVER_PLAYER_STATE
stopped == 0
attemptingToStop == 1
attemptingToStart == 2
playing == 3

HOVER_PLAYER_STATE == {stopped, attemptingToStop, attemptingToStart, playing}

\* default of the overlayFadeTransitionDuration prop
overlayFadeTransitionDuration == 400

VARIABLES
  hoverPlayerState,            \* React.useState(HOVER_PLAYER_STATE.stopped)
  isVideoLoadingRef,           \* isVideoLoadingRef.current
  pauseVideoTimeoutRef,        \* delays of the timeouts still pending: {} or {d}
  videoPaused,                 \* videoRef.current.paused
  isFocused,                   \* the isFocused prop
  pausedOverlay,               \* whether a pausedOverlay prop was given
  shouldRestartOnVideoStopped, \* the shouldRestartOnVideoStopped prop
  mounted,                     \* whether the component is still mounted
  hist                         \* handler invocations so far, with their effects

vars == <<hoverPlayerState, isVideoLoadingRef, pauseVideoTimeoutRef,
          videoPaused, isFocused, pausedOverlay,
          shouldRestartOnVideoStopped, mounted, hist>>

\* The mutable part of the component a handler reads and writes.
Ctx == [state   |-> hoverPlayerState,
        loading |-> isVideoLoadingRef,
        timer   |-> pauseVideoTimeoutRef,
        paused  |-> videoPaused]

\* A handler's result: the context it leaves and the callbacks it invoked and
\* the commands it gave the video element, in order.
Result(c, o) == [ctx |-> c, out |-> o]

\* clearTimeout(pauseVideoTimeoutRef.current)
clearTimeout(c) == [c EXCEPT !.timer = {}]

\* attemptStartVideo without its clearTimeout
attemptStartVideo_keepsTimeout(c) ==
  IF c.state >= attemptingToStart
    THEN Result(c, <<>>)
    ELSE IF c.paused
      THEN Result([c EXCEPT !.state = attemptingToStart,
                            !.loading = TRUE,
                            !.paused = FALSE],
                  <<"onStartingVideo", "play">>)
      ELSE IF c.loading
        THEN Result([c EXCEPT !.state = attemptingToStart],
                    <<"onStartingVideo">>)
        ELSE Result([c EXCEPT !.state = playing], <<>>)

\* attemptStartVideo without its early return
attemptStartVideo_noEarlyReturn(c) ==
  LET c1 == clearTimeout(c) IN
  IF c.paused
    THEN Result([c1 EXCEPT !.state = attemptingToStart,
                           !.loading = TRUE,
                           !.paused = FALSE],
                <<"onStartingVideo", "play">>)
    ELSE IF c.loading
      THEN Result([c1 EXCEPT !.state = attemptingToStart],
                  <<"onStartingVideo">>)
      ELSE Result([c1 EXCEPT !.state = playing], <<>>)

\* attemptStartVideo with the paused and the still-loading branch collapsed
attemptStartVideo_twoBranches(c) ==
  LET c1 == clearTimeout(c) IN
  IF c.state >= attemptingToStart
    THEN Result(c1, <<>>)
    ELSE IF c.paused \/ c.loading
      THEN Result([c1 EXCEPT !.state = attemptingToStart,
                             !.loading = TRUE,
                             !.paused = FALSE],
                  <<"onStartingVideo", "play">>)
      ELSE Result([c1 EXCEPT !.state = playing], <<>>)

\* attemptStartVideo without its isVideoLoadingRef.current = true
attemptStartVideo_noLoadingFlag(c) ==
  LET c1 == clearTimeout(c) IN
  IF c.state >= attemptingToStart
    THEN Result(c1, <<>>)
    ELSE IF c.paused
      THEN Result([c1 EXCEPT !.state = attemptingToStart,
                             !.paused = FALSE],
                  <<"onStartingVideo", "play">>)
      ELSE IF c.loading
        THEN Result([c1 EXCEPT !.state = attemptingToStart],
                    <<"onStartingVideo">>)
        ELSE Result([c1 EXCEPT !.state = playing], <<>>)

\* function attemptStartVideo()
attemptStartVideo(c) ==
  LET c1 == clearTimeout(c) IN
  IF c.state >= attemptingToStart
    THEN Result(c1, <<>>)
    ELSE IF c.paused
      THEN Result([c1 EXCEPT !.state = attemptingToStart,
                             !.loading = TRUE,
                             !.paused = FALSE],
                  <<"onStartingVideo", "play">>)
      ELSE IF c.loading
        THEN Result([c1 EXCEPT !.state = attemptingToStart],
                    <<"onStartingVideo">>)
        ELSE Result([c1 EXCEPT !.state = playing], <<>>)

\* delay handed to setTimeout by attemptStopVideo
timeoutDelay(overlay) == IF overlay THEN overlayFadeTransitionDuration ELSE 0

\* attemptStopVideo without its setHoverPlayerState(attemptingToStop)
attemptStopVideo_keepsState(c, focused, overlay) ==
  IF focused \/ c.state <= attemptingToStop
    THEN Result(c, <<>>)
    ELSE Result([clearTimeout(c) EXCEPT !.timer = {timeoutDelay(overlay)}],
                <<"onStoppingVideo">>)

\* attemptStopVideo without the isFocused test of its early return
attemptStopVideo_ignoresIsFocused(c, focused, overlay) ==
  IF c.state <= attemptingToStop
    THEN Result(c, <<>>)
    ELSE Result([clearTimeout(c) EXCEPT !.state = attemptingToStop,
                                        !.timer = {timeoutDelay(overlay)}],
                <<"onStoppingVideo">>)

\* attemptStopVideo calling clearTimeout before its early return
attemptStopVideo_clearsFirst(c, focused, overlay) ==
  IF focused \/ c.state <= attemptingToStop
    THEN Result(clearTimeout(c), <<>>)
    ELSE Result([clearTimeout(c) EXCEPT !.state = attemptingToStop,
                                        !.timer = {timeoutDelay(overlay)}],
                <<"onStoppingVideo">>)

\* const attemptStopVideo = React.useCallback(...)
attemptStopVideo(c, focused, overlay) ==
  IF focused \/ c.state <= attemptingToStop
    THEN Result(c, <<>>)
    ELSE Result([clearTimeout(c) EXCEPT !.state = attemptingToStop,
                                        !.timer = {timeoutDelay(overlay)}],
                <<"onStoppingVideo">>)

\* the timeout callback with its isVideoLoadingRef test inverted
pauseVideoTimeoutCallback_pausesWhileLoading(c, restart) ==
  LET c1 == [c EXCEPT !.state = stopped, !.timer = {}] IN
  Result(IF c.loading THEN [c1 EXCEPT !.paused = TRUE] ELSE c1,
         <<"onStoppedVideo">>
           \o (IF c.loading THEN <<"pause">> ELSE <<>>)
           \o (IF restart THEN <<"currentTime=0">> ELSE <<>>))

\* the timeout callback without its isVideoLoadingRef test
pauseVideoTimeoutCallback_alwaysPauses(c, restart) ==
  Result([c EXCEPT !.state = stopped, !.timer = {}, !.paused = TRUE],
         <<"onStoppedVideo", "pause">>
           \o (IF restart THEN <<"currentTime=0">> ELSE <<>>))

\* the timeout callback without its setHoverPlayerState(stopped)
pauseVideoTimeoutCallback_keepsState(c, restart) ==
  LET c1 == [c EXCEPT !.timer = {}] IN
  Result(IF c.loading THEN c1 ELSE [c1 EXCEPT !.paused = TRUE],
         <<"onStoppedVideo">>
           \o (IF c.loading THEN <<>> ELSE <<"pause">>)
           \o (IF restart THEN <<"currentTime=0">> ELSE <<>>))

\* the callback attemptStopVideo hands to setTimeout
pauseVideoTimeoutCallback(c, restart) ==
  LET c1 == [c EXCEPT !.state = stopped, !.timer = {}] IN
  Result(IF c.loading THEN c1 ELSE [c1 EXCEPT !.paused = TRUE],
         <<"onStoppedVideo">>
           \o (IF c.loading THEN <<>> ELSE <<"pause">>)
           \o (IF restart THEN <<"currentTime=0">> ELSE <<>>))

\* onPlaying with the stopped branch resuming instead of pausing
onPlaying_noStoppedBranch(c) ==
  LET c1 == [c EXCEPT !.loading = FALSE] IN
  IF c.state >= attemptingToStart \/ c.state = stopped
    THEN Result([c1 EXCEPT !.state = playing], <<"onStartedVideo">>)
    ELSE Result(c1, <<>>)

\* the same callback run after the component has unmounted: React ignores
\* the setHoverPlayerState of an unmounted component and has reset
\* videoRef.current to null, so the first access to the video throws
pauseVideoTimeoutCallbackUnmounted(c, restart) ==
  Result([c EXCEPT !.timer = {}],
         <<"onStoppedVideo">>
           \o (IF ~c.loading \/ restart THEN <<"TypeError">> ELSE <<>>))

\* onPlaying without the pause of its stopped branch
onPlaying_noPause(c) ==
  LET c1 == [c EXCEPT !.loading = FALSE] IN
  IF c.state >= attemptingToStart
    THEN Result([c1 EXCEPT !.state = playing], <<"onStartedVideo">>)
    ELSE Result(c1, <<>>)

\* <video onPlaying={...}>
onPlaying(c) ==
  LET c1 == [c EXCEPT !.loading = FALSE] IN
  IF c.state >= attemptingToStart
    THEN Result([c1 EXCEPT !.state = playing], <<"onStartedVideo">>)
    ELSE IF c.state = stopped
      THEN Result([c1 EXCEPT !.paused = TRUE], <<"pause">>)
      ELSE Result(c1, <<>>)

\* onError without its setHoverPlayerState(stopped)
onError_keepsState(c) ==
  Result(c, <<"onVideoPlaybackFailed">>)

\* <video onError={...}>
onError(c) ==
  Result([c EXCEPT !.state = stopped], <<"onVideoPlaybackFailed">>)

\* the isFocused effect calling an attemptStopVideo of the previous render
isFocusedEffect_staleStop(c, focused, overlay) ==
  IF focused THEN attemptStartVideo(c)
             ELSE attemptStopVideo(c, ~focused, overlay)

\* the isFocused effect without its attemptStartVideo branch
isFocusedEffect_onlyStops(c, focused, overlay) ==
  IF focused THEN Result(c, <<>>)
             ELSE attemptStopVideo(c, focused, overlay)

\* React.useEffect(() => {...}, [isFocused]) run with the new prop value
isFocusedEffect(c, focused, overlay) ==
  IF focused THEN attemptStartVideo(c)
             ELSE attemptStopVideo(c, focused, overlay)

\* One handler ran to completion and React re-rendered.
Commit(op, focused, r) ==
  /\ hoverPlayerState' = r.ctx.state
  /\ isVideoLoadingRef' = r.ctx.loading
  /\ pauseVideoTimeoutRef' = r.ctx.timer
  /\ videoPaused' = r.ctx.paused
  /\ isFocused' = focused
  /\ hist' = Append(hist, [op |-> op, focused |-> focused,
                           pre |-> Ctx, post |-> r.ctx, out |-> r.out])
  /\ UNCHANGED <<pausedOverlay, shouldRestartOnVideoStopped, mounted>>

Init ==
  /\ hoverPlayerState = stopped
  /\ isVideoLoadingRef = FALSE
  /\ pauseVideoTimeoutRef = {}
  /\ videoPaused = TRUE
  /\ isFocused = FALSE
  /\ pausedOverlay \in BOOLEAN
  /\ shouldRestartOnVideoStopped \in BOOLEAN
  /\ mounted = TRUE
  /\ hist = <<>>

\* onMouseEnter / onFocus / onTouchStart on the container
RequestStart ==
  /\ Len(hist) < MaxHist
  /\ mounted
  /\ Commit("requestStart", isFocused, attemptStartVideo(Ctx))

\* onMouseOut / onBlur on the container, touchstart outside of it
RequestStop ==
  /\ Len(hist) < MaxHist
  /\ mounted
  /\ Commit("requestStop", isFocused,
            attemptStopVideo(Ctx, isFocused, pausedOverlay))

\* a pending pause timeout elapses and the runtime calls its callback; no
\* code clears the timeout when the component unmounts
TimeoutElapses ==
  /\ pauseVideoTimeoutRef # {}
  /\ Commit("timeout", isFocused,
            IF mounted
              THEN pauseVideoTimeoutCallback(Ctx, shouldRestartOnVideoStopped)
              ELSE pauseVideoTimeoutCallbackUnmounted(
                     Ctx, shouldRestartOnVideoStopped))

\* the same, within the recorded length
TimeoutFires ==
  /\ Len(hist) < MaxHist
  /\ TimeoutElapses

\* the video element reports that playback has begun; only a video that is
\* not paused (play() was called and no pause() since) fires the event
MediaPlaying ==
  /\ Len(hist) < MaxHist
  /\ mounted
  /\ ~videoPaused
  /\ Commit("onPlaying", isFocused, onPlaying(Ctx))

\* the video element reports an error
MediaError ==
  /\ Len(hist) < MaxHist
  /\ mounted
  /\ Commit("onError", isFocused, onError(Ctx))

\* the parent re-renders the component with another isFocused
SetIsFocused ==
  /\ Len(hist) < MaxHist
  /\ mounted
  /\ \E f \in BOOLEAN :
       /\ f # isFocused
       /\ Commit("isFocused", f, isFocusedEffect(Ctx, f, pausedOverlay))

\* the parent stops rendering the component: React runs the effect cleanups
\* (only the window touchstart listener is removed) and detaches the refs
Unmount ==
  /\ Len(hist) < MaxHist
  /\ mounted
  /\ mounted' = FALSE
  /\ hist' = Append(hist, [op |-> "unmount", focused |-> isFocused,
                           pre |-> Ctx, post |-> Ctx, out |-> <<>>])
  /\ UNCHANGED <<hoverPlayerState, isVideoLoadingRef, pauseVideoTimeoutRef,
                 videoPaused, isFocused, pausedOverlay,
                 shouldRestartOnVideoStopped>>

Next ==
  \/ RequestStart
  \/ RequestStop
  \/ TimeoutFires
  \/ MediaPlaying
  \/ MediaError
  \/ SetIsFocused
  \/ Unmount

Spec == Init /\ [][Next]_vars

\* The same component where a pending timeout always gets to elapse: the
\* browser runs the callback of every timeout that is not cleared, however
\* many other events it has delivered.
LiveNext ==
  \/ RequestStart
  \/ RequestStop
  \/ TimeoutElapses
  \/ MediaPlaying
  \/ MediaError
  \/ SetIsFocused
  \/ Unmount

LiveSpec == Init /\ [][LiveNext]_vars /\ WF_vars(TimeoutElapses)

TypeOK ==
  /\ hoverPlayerState \in HOVER_PLAYER_STATE
  /\ isVideoLoadingRef \in BOOLEAN
  /\ pauseVideoTimeoutRef \in SUBSET {0, overlayFadeTransitionDuration}
  /\ Cardinality(pauseVideoTimeoutRef) <= 1
  /\ videoPaused \in BOOLEAN
  /\ isFocused \in BOOLEAN
  /\ mounted \in BOOLEAN
  /\ Len(hist) <= MaxHist

\* ------------------------------------------------- reading the history
\* the names of the handlers that have run
OpsSoFar == {hist[i].op : i \in DOMAIN hist}

\* a recorded invocation that scheduled a deferred stop
Accepted(e) == e.op \in {"requestStop", "isFocused"} /\ e.post.timer # {}

\* the entries of a sequence that belong to a set, in order
RECURSIVE Only(_, _)
Only(seq, S) ==
  IF seq = <<>> THEN <<>>
  ELSE (IF Head(seq) \in S THEN <<Head(seq)>> ELSE <<>>) \o Only(Tail(seq), S)

\* what the invocations i..j invoked, in order
RECURSIVE OutOf(_, _)
OutOf(i, j) == IF i > j THEN <<>> ELSE hist[i].out \o OutOf(i + 1, j)

\* the states seen from before invocation 1 to after invocation n
StatesUpTo(n) ==
  [k \in 1..(n + 1) |-> IF k = 1 THEN hist[1].pre.state ELSE hist[k - 1].post.state]

CallbackNames == {"onStartingVideo", "onStartedVideo", "onStoppingVideo",
                  "onStoppedVideo", "onVideoPlaybackFailed"}
CommandNames == {"play", "pause"}

\* ---------------------------------------------------------------- C1
\* C1: as long as only requestStart, requestStop and the deferred-stop timer
\* have run (no media event, no override change), the state is one of the four
\* defined values and a deferred stop is pending iff the state is
\* AttemptingToStop.
C1_TimerIffAttemptingToStop ==
  OpsSoFar \subseteq {"requestStart", "requestStop", "timeout"} =>
    /\ hoverPlayerState \in HOVER_PLAYER_STATE
    /\ (pauseVideoTimeoutRef # {} <=> hoverPlayerState = attemptingToStop)

\* a stop was scheduled, and another one ran to its end, with no media event
C1_Witness ==
  /\ OpsSoFar = {"requestStart", "requestStop", "timeout"}
  /\ hoverPlayerState = attemptingToStop
  /\ pauseVideoTimeoutRef # {}

\* ---------------------------------------------------------------- C2
\* C2: under every interleaving of all six events, a pending deferred stop
\* implies that the state is AttemptingToStop.
C2_TimerImpliesAttemptingToStop ==
  pauseVideoTimeoutRef # {} => hoverPlayerState = attemptingToStop

\* ---------------------------------------------------------------- C3
\* C3: when an accepted requestStop is directly followed by requestStart,
\* the stop that was scheduled is cancelled: no timer is pending after the
\* start, and the timer callback runs later only for a stop accepted after
\* that start (so the cancelled stop gives no pause, no onStoppedVideo and no
\* transition to Stopped).
C3_StartCancelsStop ==
  \A i \in DOMAIN hist :
    (/\ i + 1 \in DOMAIN hist
     /\ hist[i].op = "requestStop" /\ Accepted(hist[i])
     /\ hist[i + 1].op = "requestStart") =>
       /\ hist[i + 1].post.timer = {}
       /\ hist[i + 1].post.state >= attemptingToStart
       /\ ~ \E x \in 1..Len(hist[i + 1].out) :
              hist[i + 1].out[x] \in {"pause", "onStoppedVideo"}
       /\ \A j \in DOMAIN hist :
            (j > i + 1 /\ hist[j].op = "timeout") =>
              \E k \in (i + 2)..(j - 1) : Accepted(hist[k])

\* a stop was accepted, a start followed at once, and the player went on to
\* play without the timer callback having run since
C3_Witness ==
  \E i \in DOMAIN hist :
    /\ i + 2 \in DOMAIN hist
    /\ hist[i].op = "requestStop" /\ Accepted(hist[i])
    /\ hist[i + 1].op = "requestStart"
    /\ hist[i + 2].op = "onPlaying"
    /\ hoverPlayerState = playing

\* ---------------------------------------------------------------- C4
\* C4: of two consecutive requestStart calls the second changes nothing and
\* invokes nothing, so both together have the effects of one; from Stopped
\* with a paused video they give exactly one onStartingVideo and one play.
C4_RequestStartIdempotent ==
  \A i \in DOMAIN hist :
    (/\ i + 1 \in DOMAIN hist
     /\ hist[i].op = "requestStart"
     /\ hist[i + 1].op = "requestStart") =>
       /\ hist[i + 1].out = <<>>
       /\ hist[i + 1].post = hist[i + 1].pre
       /\ (hist[i].pre.state = stopped /\ hist[i].pre.paused) =>
            /\ Only(OutOf(i, i + 1), CallbackNames) = <<"onStartingVideo">>
            /\ Only(OutOf(i, i + 1), CommandNames) = <<"play">>
            /\ hist[i + 1].post.state = attemptingToStart
            /\ hist[i + 1].post.loading

\* two requestStart calls in a row, the first from Stopped with a paused video
C4_Witness ==
  \E i \in DOMAIN hist :
    /\ i + 1 \in DOMAIN hist
    /\ hist[i].op = "requestStart" /\ hist[i + 1].op = "requestStart"
    /\ hist[i].pre.state = stopped /\ hist[i].pre.paused

\* ---------------------------------------------------------------- C5
\* C5: when the video reports playing while the state is Stopped, the handler
\* clears the loading flag, pauses the video, does not invoke onStartedVideo
\* and leaves the state Stopped.
C5_ReadyWhileStoppedPauses ==
  \A i \in DOMAIN hist :
    (hist[i].op = "onPlaying" /\ hist[i].pre.state = stopped) =>
      /\ hist[i].post.loading = FALSE
      /\ hist[i].out = <<"pause">>
      /\ hist[i].post.paused
      /\ hist[i].post.state = stopped

\* the video reported playing after the user had left during loading
C5_Witness ==
  \E i \in DOMAIN hist :
    /\ hist[i].op = "onPlaying"
    /\ hist[i].pre.state = stopped
    /\ hist[i].pre.loading

\* ---------------------------------------------------------------- C6
\* C6: a requestStop made while isFocused is true changes neither the state,
\* the loading flag nor the timer and invokes no callback and no command.
C6_StopIgnoredWhileFocused ==
  \A i \in DOMAIN hist :
    (hist[i].op = "requestStop" /\ hist[i].focused) =>
      /\ hist[i].post = hist[i].pre
      /\ hist[i].out = <<>>

\* two requestStop calls were made while focused and starting or playing
C6_Witness ==
  \E i \in DOMAIN hist :
    /\ i + 1 \in DOMAIN hist
    /\ hist[i].op = "requestStop" /\ hist[i].focused
    /\ hist[i + 1].op = "requestStop" /\ hist[i + 1].focused
    /\ hist[i].pre.state >= attemptingToStart

\* ---------------------------------------------------------------- C7
\* C7: isFocused going from false to true does what one requestStart does
\* (cancel the pending stop; nothing more when already starting or playing;
\* else onStartingVideo and play on a paused video, onStartingVideo alone on
\* a loading one, straight to Playing otherwise), and going from true to
\* false does what one requestStop does with the override off (from
\* AttemptingToStart or Playing: AttemptingToStop, one onStoppingVideo, one
\* deferred stop; nothing otherwise).
C7_FocusActsAsStartAndStop ==
  \A i \in DOMAIN hist :
    hist[i].op = "isFocused" =>
      LET pre == hist[i].pre
          post == hist[i].post
          out == hist[i].out
      IN IF hist[i].focused
           THEN /\ post.timer = {}
                /\ pre.state >= attemptingToStart =>
                     /\ post = [pre EXCEPT !.timer = {}]
                     /\ out = <<>>
                /\ (pre.state < attemptingToStart /\ pre.paused) =>
                     /\ post = [state |-> attemptingToStart, loading |-> TRUE,
                                 timer |-> {}, paused |-> FALSE]
                     /\ out = <<"onStartingVideo", "play">>
                /\ (pre.state < attemptingToStart /\ ~pre.paused
                      /\ pre.loading) =>
                     /\ post = [pre EXCEPT !.timer = {},
                                            !.state = attemptingToStart]
                     /\ out = <<"onStartingVideo">>
                /\ (pre.state < attemptingToStart /\ ~pre.paused
                      /\ ~pre.loading) =>
                     /\ post = [pre EXCEPT !.timer = {}, !.state = playing]
                     /\ out = <<>>
           ELSE /\ pre.state >= attemptingToStart =>
                     /\ post.state = attemptingToStop
                     /\ Cardinality(post.timer) = 1
                     /\ post.loading = pre.loading
                     /\ post.paused = pre.paused
                     /\ out = <<"onStoppingVideo">>
                /\ pre.state <= attemptingToStop =>
                     /\ post = pre
                     /\ out = <<>>

\* the override was set while a deferred stop was pending, and cleared again
\* while the player was starting or playing
C7_Witness ==
  \E i, j \in DOMAIN hist :
    /\ i < j
    /\ hist[i].op = "isFocused" /\ hist[i].focused
    /\ hist[i].pre.timer # {}
    /\ hist[j].op = "isFocused" /\ ~hist[j].focused
    /\ hist[j].pre.state >= attemptingToStart

\* ---------------------------------------------------------------- C8
\* C8: with no paused overlay, requestStart, playing, requestStop, timeout
\* from the initial state give the states Stopped, AttemptingToStart,
\* Playing, AttemptingToStop, Stopped, the callbacks onStartingVideo,
\* onStartedVideo, onStoppingVideo, onStoppedVideo in that order, one play
\* (in the first step), one pause (in the last) and a delay of 0.
C8_StartReadyStopScenario ==
  (/\ ~pausedOverlay
   /\ Len(hist) >= 4
   /\ hist[1].op = "requestStart" /\ hist[2].op = "onPlaying"
   /\ hist[3].op = "requestStop" /\ hist[4].op = "timeout") =>
     /\ StatesUpTo(4) = <<stopped, attemptingToStart, playing,
                          attemptingToStop, stopped>>
     /\ Only(OutOf(1, 4), CallbackNames) =
          <<"onStartingVideo", "onStartedVideo",
            "onStoppingVideo", "onStoppedVideo">>
     /\ Only(OutOf(1, 4), CommandNames) = <<"play", "pause">>
     /\ Only(hist[1].out, CommandNames) = <<"play">>
     /\ Only(hist[4].out, CommandNames) = <<"pause">>
     /\ hist[3].post.timer = {0}

\* the scenario has just run to its end
C8_Witness ==
  /\ ~pausedOverlay
  /\ Len(hist) = 4
  /\ hist[1].op = "requestStart" /\ hist[2].op = "onPlaying"
  /\ hist[3].op = "requestStop" /\ hist[4].op = "timeout"

\* ---------------------------------------------------------------- C9
\* C9: the error handler always sets the state to Stopped, invokes
\* onVideoPlaybackFailed once and nothing else, and gives the video no
\* command; requestStart then error from the initial state gives the states
\* Stopped, AttemptingToStart, Stopped with the callbacks onStartingVideo,
\* onVideoPlaybackFailed and no pause.
C9_ErrorRecovery ==
  /\ \A i \in DOMAIN hist :
       hist[i].op = "onError" =>
         /\ hist[i].post.state = stopped
         /\ hist[i].out = <<"onVideoPlaybackFailed">>
         /\ hist[i].post.paused = hist[i].pre.paused
  /\ (/\ Len(hist) >= 2
      /\ hist[1].op = "requestStart" /\ hist[2].op = "onError") =>
        /\ StatesUpTo(2) = <<stopped, attemptingToStart, stopped>>
        /\ Only(OutOf(1, 2), CallbackNames) =
             <<"onStartingVideo", "onVideoPlaybackFailed">>
        /\ Only(OutOf(1, 2), {"pause"}) = <<>>

\* requestStart then error, and a later error that found the player playing
C9_Witness ==
  /\ Len(hist) >= 4
  /\ hist[1].op = "requestStart" /\ hist[2].op = "onError"
  /\ \E i \in DOMAIN hist :
       hist[i].op = "onError" /\ hist[i].pre.state = playing

\* --------------------------------------------------------------- C10
\* C10: isLoading is true only if some play command has been issued and no
\* playing or error event has been handled since that command.
C10_LoadingOnlyWhilePlayInFlight ==
  isVideoLoadingRef =>
    \E i \in DOMAIN hist :
      /\ \E x \in 1..Len(hist[i].out) : hist[i].out[x] = "play"
      /\ \A j \in DOMAIN hist :
           j > i => hist[j].op \notin {"onPlaying", "onError"}

\* ------------------------------------------------ more history readers
\* a sequence contains an entry
Has(seq, x) == \E k \in 1..Len(seq) : seq[k] = x

\* a recorded invocation of attemptStartVideo
StartLike(e) == e.op = "requestStart" \/ (e.op = "isFocused" /\ e.focused)

\* --------------------------------------------------------------- C11
\* C11: the first requestStart after an error handler has run (the state is
\* still Stopped) issues a play command and leaves the state
\* AttemptingToStart with isLoading true, whatever isLoading and the video's
\* paused flag were when the error arrived.
C11_FreshStartAfterError ==
  \A i, j \in DOMAIN hist :
    (/\ i < j
     /\ hist[i].op = "onError"
     /\ hist[j].op = "requestStart"
     /\ \A k \in (i + 1)..(j - 1) : ~StartLike(hist[k])) =>
       /\ Has(hist[j].out, "play")
       /\ hist[j].post.state = attemptingToStart
       /\ hist[j].post.loading

\* --------------------------------------------------------------- C12
\* C12: unmounting cancels a pending deferred stop, so the timeout callback
\* never runs after the unmount.
C12_UnmountCancelsTimeout ==
  \A i \in DOMAIN hist :
    hist[i].op = "unmount" =>
      /\ hist[i].post.timer = {}
      /\ \A j \in DOMAIN hist : j > i => hist[j].op # "timeout"

\* --------------------------------------------------------------- C13
\* C13 as stated: after any requestStart or requestStop, a timer that was
\* pending before the call is no longer pending (a stop that is accepted
\* replaces it by its own).
C13_EveryRequestCancelsPending ==
  \A i \in DOMAIN hist :
    (hist[i].op \in {"requestStart", "requestStop"}
      /\ hist[i].pre.timer # {}) =>
        \/ hist[i].post.timer = {}
        \/ hist[i].out = <<"onStoppingVideo">>

\* C13 as amended: requestStart always cancels a pending deferred stop,
\* before its guard. requestStop evaluates its guard first: when the guard
\* makes it a no-op the pending timer is left as it was; when it is accepted
\* no timer was pending and it schedules exactly one.
C13_StartCancelsStopKeepsUnlessAccepted ==
  \A i \in DOMAIN hist :
    /\ hist[i].op = "requestStart" => hist[i].post.timer = {}
    /\ hist[i].op = "requestStop" =>
         IF hist[i].focused \/ hist[i].pre.state <= attemptingToStop
           THEN hist[i].post.timer = hist[i].pre.timer
           ELSE /\ hist[i].pre.timer = {}
                /\ Cardinality(hist[i].post.timer) = 1

\* a requestStop found a deferred stop pending in AttemptingToStop, and a
\* later requestStart found it still pending
C13_Witness ==
  \E i, j \in DOMAIN hist :
    /\ i < j
    /\ hist[i].op = "requestStop"
    /\ hist[i].pre.state = attemptingToStop /\ hist[i].pre.timer # {}
    /\ hist[j].op = "requestStart" /\ hist[j].pre.timer # {}

\* --------------------------------------------------------------- C14
\* C14: a pause command is never issued while isLoading is true: only the
\* timeout callback and the playing handler pause, the callback only when
\* isLoading was false, and the handler with isLoading cleared.
C14_NoPauseWhileLoading ==
  \A i \in DOMAIN hist :
    Has(hist[i].out, "pause") =>
      /\ ~hist[i].post.loading
      /\ \/ hist[i].op = "timeout" /\ ~hist[i].pre.loading
         \/ hist[i].op = "onPlaying"

\* a deferred stop ran during loading and did not pause, and the playing
\* event that followed did
C14_Witness ==
  \E i, j \in DOMAIN hist :
    /\ i < j
    /\ hist[i].op = "timeout" /\ hist[i].pre.loading
    /\ ~Has(hist[i].out, "pause")
    /\ hist[j].op = "onPlaying" /\ Has(hist[j].out, "pause")

\* --------------------------------------------------------------- C15
\* C15: a requestStart that passes its guard issues play iff the video is
\* paused; on a video that is not paused it goes to AttemptingToStart with
\* onStartingVideo alone when isLoading is true, and straight to Playing with
\* no callback and no command when it is false. Between two play commands a
\* playing or error event has always been handled.
C15_ThreeWayStart ==
  /\ \A i \in DOMAIN hist :
       (hist[i].op = "requestStart"
         /\ hist[i].pre.state < attemptingToStart) =>
           /\ Has(hist[i].out, "play") <=> hist[i].pre.paused
           /\ hist[i].pre.paused =>
                /\ hist[i].out = <<"onStartingVideo", "play">>
                /\ hist[i].post.state = attemptingToStart
                /\ hist[i].post.loading
           /\ (~hist[i].pre.paused /\ hist[i].pre.loading) =>
                /\ hist[i].out = <<"onStartingVideo">>
                /\ hist[i].post.state = attemptingToStart
           /\ (~hist[i].pre.paused /\ ~hist[i].pre.loading) =>
                /\ hist[i].out = <<>>
                /\ hist[i].post.state = playing
  /\ \A i, j \in DOMAIN hist :
       (i < j /\ Has(hist[i].out, "play") /\ Has(hist[j].out, "play")) =>
         \E k \in (i + 1)..(j - 1) : hist[k].op \in {"onPlaying", "onError"}

\* a requestStart went straight to Playing on a video that was still playing
C15_Witness ==
  \E i \in DOMAIN hist :
    /\ hist[i].op = "requestStart"
    /\ hist[i].pre.state < attemptingToStart
    /\ ~hist[i].pre.paused /\ ~hist[i].pre.loading
    /\ hist[i].post.state = playing

\* --------------------------------------------------------------- C16
\* how often an entry occurs in what the invocations i..j invoked
Count(i, j, x) == Len(Only(OutOf(i, j), {x}))

\* the stop accepted by invocation n has run to its end, or a start, an
\* override or an unmount came after it
C16_Resolved(n) ==
  \E j \in DOMAIN hist :
    /\ j > n
    /\ \/ StartLike(hist[j])
       \/ hist[j].op = "unmount"
       \/ /\ hist[j].op = "timeout"
          /\ hist[j].post.state = stopped
          /\ Count(n, j, "onStoppedVideo") = 1

\* until a start or an override follows it, an accepted stop has invoked
\* onStoppedVideo at most once
C16_AtMostOnce ==
  \A n, j \in DOMAIN hist :
    (/\ n <= j
     /\ Accepted(hist[n])
     /\ \A k \in (n + 1)..j : ~StartLike(hist[k])) =>
       Count(n, j, "onStoppedVideo") <= 1

\* C16: once a requestStop is accepted, and unless a requestStart, the
\* override or an unmount follows, the timer eventually runs, the state
\* becomes Stopped and onStoppedVideo has been invoked exactly once for that
\* stop, whatever playing and error events arrive in between.
C16_StopCompletes ==
  /\ [] C16_AtMostOnce
  /\ \A n \in 1..MaxHist :
       (Len(hist) = n /\ Accepted(hist[n])) ~> C16_Resolved(n)

\* a stop was accepted, a media event arrived, and the timer then ran and
\* left the player Stopped
C16_Witness ==
  \E n, j \in DOMAIN hist :
    /\ n + 1 < j
    /\ hist[n].op = "requestStop" /\ Accepted(hist[n])
    /\ hist[n + 1].op \in {"onPlaying", "onError"}
    /\ hist[j].op = "timeout"
    /\ \A k \in (n + 1)..j : ~StartLike(hist[k])
    /\ mounted /\ hoverPlayerState = stopped
    /\ Count(n, j, "onStoppedVideo") = 1

\* --------------------------------------------------------------- C17
\* a deferred stop that ran during loading is followed, with no start in
\* between, by a playing event only if that event pauses the video
C17_ReadyAfterStopPauses ==
  \A i, j \in DOMAIN hist :
    (/\ i < j
     /\ hist[i].op = "timeout" /\ hist[i].pre.loading
     /\ hist[j].op = "onPlaying"
     /\ \A k \in (i + 1)..(j - 1) : ~StartLike(hist[k])) =>
       Has(hist[j].out, "pause")

\* the last play command has been answered by a playing event, a stop was
\* accepted after it with no start since, and no pause has followed yet
C17_PauseOwed ==
  /\ mounted
  /\ \E i \in DOMAIN hist :
       /\ Has(hist[i].out, "play")
       /\ \A j \in DOMAIN hist : j > i => ~Has(hist[j].out, "play")
       /\ \A j \in DOMAIN hist : j > i => ~Has(hist[j].out, "pause")
       /\ \E j \in DOMAIN hist : j > i /\ hist[j].op = "onPlaying"
       /\ \E k \in DOMAIN hist :
            /\ k > i
            /\ Accepted(hist[k])
            /\ \A l \in DOMAIN hist : l > k => ~StartLike(hist[l])

\* C17: when the deferred stop ran while isLoading was true and no start
\* follows, the playing event that arrives later pauses the video; and after
\* an accepted stop with no later start, a play command whose playing event
\* has arrived is eventually followed by a pause command.
C17_LoadingVideoPausedLater ==
  /\ [] C17_ReadyAfterStopPauses
  /\ C17_PauseOwed ~> ~C17_PauseOwed

\* the deferred stop ran during loading, the playing event came later and
\* the video is paused again
C17_Witness ==
  /\ mounted /\ videoPaused /\ hoverPlayerState = stopped
  /\ \E i, j \in DOMAIN hist :
       /\ i < j
       /\ hist[i].op = "timeout" /\ hist[i].pre.loading
       /\ hist[j].op = "onPlaying" /\ hist[j].pre.loading
       /\ \A k \in (i + 1)..(j - 1) : ~StartLike(hist[k])

\* --------------------------------------------------------------- C18
\* C18: onStoppedVideo is invoked only by a step that takes the state from
\* AttemptingToStop to Stopped, never when the state is already Stopped, and
\* at most once for each accepted requestStop.
C18_StoppedOnlyAtTransition ==
  /\ \A i \in DOMAIN hist :
       Has(hist[i].out, "onStoppedVideo") =>
         /\ hist[i].pre.state = attemptingToStop
         /\ hist[i].post.state = stopped
  /\ \A n, j \in DOMAIN hist :
       (/\ n <= j
        /\ hist[n].op = "requestStop" /\ Accepted(hist[n])
        /\ \A k \in (n + 1)..j : ~Accepted(hist[k])) =>
          Count(n, j, "onStoppedVideo") <= 1

\* --------------------------------------------------------------- C19
\* C19: in AttemptingToStart isLoading is true and in Playing it is false.
C19_StateAndLoadingAgree ==
  /\ hoverPlayerState = attemptingToStart => isVideoLoadingRef
  /\ hoverPlayerState = playing => ~isVideoLoadingRef

\* a requestStart took the still-loading branch after an error, and the
\* playing event then took the player to Playing
C19_Witness ==
  /\ hoverPlayerState = playing
  /\ \E i \in DOMAIN hist :
       /\ i + 1 \in DOMAIN hist
       /\ hist[i].op = "requestStart"
       /\ hist[i].out = <<"onStartingVideo">>
       /\ hist[i + 1].op = "onPlaying"
       /\ hist[i + 1].pre.loading

\* --------------------------------------------------------------- C20
\* invocation i is the isFocused effect of the override being set
C20_Sets(i) == hist[i].op = "isFocused" /\ hist[i].focused

\* invocation j ran with the override set, after the effect of setting it
C20_Within(j) ==
  /\ hist[j].focused
  /\ hist[j].op # "isFocused"

\* what C20 says of the override interval apart from pause commands
C20_NoStopWhileFocused ==
  \A j \in DOMAIN hist :
    /\ C20_Sets(j) =>
         /\ hist[j].post.timer = {}
         /\ hist[j].post.state >= attemptingToStart
    /\ C20_Within(j) =>
         /\ hist[j].pre.timer = {} /\ hist[j].post.timer = {}
         /\ hist[j].op # "timeout"
         /\ hist[j].post.state # attemptingToStop
         /\ (hist[j].pre.state >= attemptingToStart
               /\ hist[j].post.state < attemptingToStart) =>
                 hist[j].op = "onError"

\* C20 as stated: while the override is set no deferred stop is pending or
\* fires, the state is never AttemptingToStop, only the error handler takes
\* the state below AttemptingToStart, and no pause command is issued.
C20_FocusedNeverStopsNorPauses ==
  /\ C20_NoStopWhileFocused
  /\ \A j \in DOMAIN hist :
       (C20_Sets(j) \/ C20_Within(j)) => ~Has(hist[j].out, "pause")

\* C20 as amended: the same, except that a pause command is issued in the
\* interval only by the playing handler finding the state Stopped, after an
\* error handler of the same interval has run.
C20_FocusedPausesOnlyAfterError ==
  /\ C20_NoStopWhileFocused
  /\ \A j \in DOMAIN hist :
       ((C20_Sets(j) \/ C20_Within(j)) /\ Has(hist[j].out, "pause")) =>
         /\ hist[j].op = "onPlaying"
         /\ hist[j].pre.state = stopped
         /\ \E i, k \in DOMAIN hist :
              /\ i < k /\ k < j
              /\ C20_Sets(i)
              /\ hist[k].op = "onError"
              /\ \A l \in i..j : hist[l].focused

\* the override was set while a deferred stop was pending and, still within
\* the interval, a playing event paused the video
C20_Witness ==
  \E i, j \in DOMAIN hist :
    /\ i < j
    /\ C20_Sets(i) /\ hist[i].pre.timer # {}
    /\ \A l \in i..j : hist[l].focused
    /\ hist[j].op = "onPlaying" /\ Has(hist[j].out, "pause")
====
